---- MODULE Spec2Model ----
(***************************************************************************)
(* Model of the Groq conversation agent (custom_components/groq):          *)
(*   - _transform_stream, the streaming delta aggregator;                  *)
(*   - GroqConversationEntity._async_handle_chat_log, the bounded          *)
(*     tool-calling loop, with its caller _async_handle_message;           *)
(*   - ModelCache (helpers.py), the cache of model identifiers;            *)
(*   - convert (voluptuous_to_jsonschema.py), the schema translator.       *)
(*                                                                         *)
(* Text is a sequence of tokens (<<>> is the empty string or None).        *)
(* A structured (JSON) value is [path, leaf]: the keys of the nested       *)
(* single-key objects from the outside in, and the innermost value, which  *)
(* is a run of digits or the empty object EmptyObject.                     *)
(***************************************************************************)
EXTENDS Naturals, Sequences, FiniteSets

VARIABLES
    pc,                 \* position of the invocation (loop state)
    iteration,          \* iterations of `for _ in range(MAX_TOOL_ITERATIONS)` entered
    requests,           \* completion requests issued (calls of completions.create)
    chat_log,           \* chat_log.content
    messages,           \* the loop's local outgoing message list
    stream,             \* chunks of the current response not yet delivered
    chunks,             \* chunks of the current stream consumed so far
    current_tool_calls, \* _transform_stream's accumulator (insertion ordered)
    events,             \* deltas yielded by _transform_stream for this stream
    queue,              \* tool calls of the round's assistant message still to run
    executed,           \* log of tool executor invocations: [round, id]
    served,             \* the streams the remote model answered with, per request
    failedAt,           \* number of the request that failed (0: none failed)
    outcome,            \* what _async_handle_message hands to its caller
    assistantAt,        \* index in chat_log of this round's assistant message (0: none)
    log0,               \* chat_log.content when the invocation started
    budget,             \* rounds that may still deviate from the default response
    chat_models,        \* ModelCache._chat_models
    stt_models,         \* ModelCache._stt_models
    tts_models,         \* ModelCache._tts_models
    last_updated,       \* ModelCache._last_updated
    lock,               \* ModelCache._lock: the caller inside `async with` (0: free)
    now,                \* datetime.now(), in hours
    callers,            \* per get_models caller: position, remote calls, result
    started,            \* get_models calls started so far
    schema,             \* the value handed to convert
    custom_serializer,  \* the custom_serializer argument of convert
    converted           \* what convert returned

vars == <<pc, iteration, requests, chat_log, messages, stream, chunks,
          current_tool_calls, events, queue, executed, served, failedAt,
          outcome, assistantAt, log0, budget, chat_models, stt_models,
          tts_models, last_updated, lock, now, callers, started, schema,
          custom_serializer, converted>>

streamVars == <<chunks, current_tool_calls, events>>

loopVars == <<pc, iteration, requests, chat_log, messages, stream, queue,
              executed, served, failedAt, outcome, assistantAt, log0, budget>>

cacheVars == <<chat_models, stt_models, tts_models, last_updated, lock, now,
               callers, started>>

schemaVars == <<schema, custom_serializer, converted>>

\* the variables of the components the conversation agent does not touch
sideVars == <<cacheVars, schemaVars>>

----------------------------------------------------------------------------
(* Bounds of the model *)

\* longest stream the aggregator-only specification feeds to _transform_stream
MaxChunks == 5

\* rounds of one invocation in which the remote model or the tool executor
\* may behave otherwise than "one well-formed tool call, successful result"
MaxDeviations == 2

\* longest stream of the single-round specification
MaxRoundChunks == 3

\* as MaxDeviations, for the specification with fairness
MaxLiveDeviations == 1

\* coroutines that call ModelCache.get_models
MaxCallers == 3

\* get_models calls made in all
MaxCalls == 4

\* hours the clock advances
MaxHours == 3

\* keys of a mapping handed to convert
MaxKeys == 3

\* Max number of back and forth with the LLM to generate a response
MAX_TOOL_ITERATIONS == 10

----------------------------------------------------------------------------
(* Components at rest *)

\* a list attribute of ModelCache: None, or a list of model ids
None == [set |-> FALSE, ids |-> <<>>]

\* _last_updated = None
Never == [set |-> FALSE, at |-> 0]

\* a JSON Schema fragment: `keys` are the keys the dict has, in order
EmptyFragment ==
    [keys |-> <<>>, type |-> "", properties |-> <<>>, required |-> <<>>,
     items |-> <<>>, enum |-> <<>>, additionalProperties |-> FALSE,
     custom |-> ""]

\* no ModelCache call is made
CacheUnused ==
    /\ chat_models = None
    /\ stt_models = None
    /\ tts_models = None
    /\ last_updated = Never
    /\ lock = 0
    /\ now = 0
    /\ callers = <<>>
    /\ started = 0

\* convert is not called
SchemaUnused ==
    /\ schema = EmptyFragment
    /\ custom_serializer = "none"
    /\ converted = EmptyFragment

\* no conversation is handled
AgentUnused ==
    /\ pc = "Unused"
    /\ iteration = 0
    /\ requests = 0
    /\ chat_log = <<>>
    /\ messages = <<>>
    /\ stream = <<>>
    /\ chunks = <<>>
    /\ current_tool_calls = <<>>
    /\ events = <<>>
    /\ queue = <<>>
    /\ executed = <<>>
    /\ served = <<>>
    /\ failedAt = 0
    /\ outcome = [kind |-> "none", transcript |-> <<>>]
    /\ assistantAt = 0
    /\ log0 = <<>>
    /\ budget = 0

----------------------------------------------------------------------------
(* Text and JSON *)

EmptyObject == <<"{}">>

Last(s) == s[Len(s)]

RECURSIVE Flatten(_)
Flatten(ss) == IF ss = <<>> THEN <<>> ELSE Head(ss) \o Flatten(Tail(ss))

\* the end (exclusive) of the run of digits of s starting at i
RECURSIVE DigitsEnd(_, _)
DigitsEnd(s, i) ==
    IF i <= Len(s) /\ s[i] = "1" THEN DigitsEnd(s, i + 1) ELSE i

ParseFail == [ok |-> FALSE, next |-> 0, path |-> <<>>, leaf |-> <<>>]

\* one JSON value of s starting at position i
RECURSIVE ParseValue(_, _)
ParseValue(s, i) ==
    IF i > Len(s) THEN ParseFail
    ELSE IF s[i] = "1" THEN
        [ok |-> TRUE, next |-> DigitsEnd(s, i), path |-> <<>>,
         leaf |-> SubSeq(s, i, DigitsEnd(s, i) - 1)]
    ELSE IF s[i] = "{" THEN
        IF i + 1 <= Len(s) /\ s[i + 1] = "}" THEN
            [ok |-> TRUE, next |-> i + 2, path |-> <<>>, leaf |-> EmptyObject]
        ELSE IF i + 2 <= Len(s) /\ s[i + 1] = "x" /\ s[i + 2] = ":" THEN
            LET r == ParseValue(s, i + 3) IN
            IF r.ok /\ r.next <= Len(s) /\ s[r.next] = "}" THEN
                [ok |-> TRUE, next |-> r.next + 1, path |-> <<"x">> \o r.path,
                 leaf |-> r.leaf]
            ELSE ParseFail
        ELSE ParseFail
    ELSE ParseFail

\* json.loads raises JSONDecodeError: no value, or data after the value
JsonDecodeError(s) ==
    LET r == ParseValue(s, 1) IN ~r.ok \/ r.next # Len(s) + 1

\* json.loads(s), for s without decode error
JsonLoads(s) ==
    LET r == ParseValue(s, 1) IN [path |-> r.path, leaf |-> r.leaf]

\* json.dumps(v): default separators, ": " after a key
RECURSIVE JsonDumps(_)
JsonDumps(v) ==
    IF v.path = <<>> THEN
        IF v.leaf = EmptyObject THEN <<"{", "}">> ELSE v.leaf
    ELSE <<"{", Head(v.path), ":", " ">>
            \o JsonDumps([path |-> Tail(v.path), leaf |-> v.leaf]) \o <<"}">>

----------------------------------------------------------------------------
(* _transform_stream *)

\* position of the slot of index idx in the accumulator, 0 when absent
RECURSIVE SlotPos(_, _, _)
SlotPos(ctc, idx, p) ==
    IF p > Len(ctc) THEN 0
    ELSE IF ctc[p].index = idx THEN p
    ELSE SlotPos(ctc, idx, p + 1)

NewSlot(f) ==
    [index |-> f.index, id |-> f.id, name |-> "", arguments |-> <<>>]

\* variant of SetId: an id once set is kept
SetId_KeepFirst(slot, f) ==
    IF f.id # "" /\ slot.id = "" THEN [slot EXCEPT !.id = f.id] ELSE slot

SetId(slot, f) ==
    IF f.id # "" THEN [slot EXCEPT !.id = f.id] ELSE slot

\* variant of SetName: a fragment's function sets the name even when empty
SetName_Overwrite(slot, f) ==
    IF f.function THEN [slot EXCEPT !.name = f.name] ELSE slot

SetName(slot, f) ==
    IF f.function /\ f.name # "" THEN [slot EXCEPT !.name = f.name] ELSE slot

\* variant of AddArguments: the new fragment is put in front
AddArguments_Prepend(slot, f) ==
    IF f.function /\ f.arguments # <<>>
    THEN [slot EXCEPT !.arguments = f.arguments \o @]
    ELSE slot

AddArguments(slot, f) ==
    IF f.function /\ f.arguments # <<>>
    THEN [slot EXCEPT !.arguments = @ \o f.arguments]
    ELSE slot

\* the body of `for tool_call_delta in delta.tool_calls` for one fragment
ApplyFragment(ctc, f) ==
    LET withSlot == IF SlotPos(ctc, f.index, 1) = 0
                    THEN Append(ctc, NewSlot(f))
                    ELSE ctc
        p == SlotPos(withSlot, f.index, 1)
    IN  [withSlot EXCEPT ![p] = AddArguments(SetName(SetId(@, f), f), f)]

RECURSIVE ApplyFragments(_, _)
ApplyFragments(ctc, frags) ==
    IF frags = <<>> THEN ctc
    ELSE ApplyFragments(ApplyFragment(ctc, Head(frags)), Tail(frags))

\* variant of SlotComplete: the name is not required
SlotComplete_NoName(slot) ==
    slot.id # "" /\ slot.arguments # <<>>

SlotComplete(slot) ==
    slot.id # "" /\ slot.name # "" /\ slot.arguments # <<>>

ToolInput(slot) ==
    [id |-> slot.id, tool_name |-> slot.name,
     tool_args |-> JsonLoads(slot.arguments)]

\* variant of Finalize: one unparsable slot discards the whole batch
Finalize_AbortOnError(ctc) ==
    IF \E p \in 1..Len(ctc) :
          SlotComplete(ctc[p]) /\ JsonDecodeError(ctc[p].arguments)
    THEN <<>>
    ELSE LET done == SelectSeq(ctc, SlotComplete)
         IN  [j \in 1..Len(done) |-> ToolInput(done[j])]

\* tool_inputs: the complete slots whose arguments parse, in dict order
RECURSIVE Finalize(_)
Finalize(ctc) ==
    IF ctc = <<>> THEN <<>>
    ELSE IF SlotComplete(Head(ctc)) /\ ~JsonDecodeError(Head(ctc).arguments)
         THEN <<ToolInput(Head(ctc))>> \o Finalize(Tail(ctc))
         ELSE Finalize(Tail(ctc))

ContentDelta(text) == [content |-> text, tool_calls |-> <<>>]
ToolCallsDelta(inputs) == [content |-> <<>>, tool_calls |-> inputs]

\* variant of ShouldFinalize: any finish reason finalizes
ShouldFinalize_AnyFinish(chunk, ctc) ==
    chunk.finish_reason # "none" /\ ctc # <<>>

\* `if finish_reason == "tool_calls" and current_tool_calls`
ShouldFinalize(chunk, ctc) ==
    chunk.finish_reason = "tool_calls" /\ ctc # <<>>

\* variant of FreshAccumulator: the accumulator outlives the stream
FreshAccumulator_Stale == current_tool_calls

\* `current_tool_calls: dict[int, dict] = {}` at the start of each stream
FreshAccumulator == <<>>

\* variant of TransformChunk: the tool-call delta is yielded even when
\* tool_inputs is empty
TransformChunk_EmitEmpty(ctc, chunk) ==
    IF ~chunk.choices THEN [ctc |-> ctc, out |-> <<>>]
    ELSE
        LET contentOut == IF chunk.content # <<>>
                          THEN <<ContentDelta(chunk.content)>> ELSE <<>>
            ctc2 == IF chunk.tool_calls # <<>>
                    THEN ApplyFragments(ctc, chunk.tool_calls) ELSE ctc
            toolOut == IF ShouldFinalize(chunk, ctc2)
                       THEN <<ToolCallsDelta(Finalize(ctc2))>> ELSE <<>>
        IN  [ctc |-> ctc2, out |-> contentOut \o toolOut]

\* variant of TransformChunk: the content is yielded after the tool calls
TransformChunk_ToolFirst(ctc, chunk) ==
    IF ~chunk.choices THEN [ctc |-> ctc, out |-> <<>>]
    ELSE
        LET contentOut == IF chunk.content # <<>>
                          THEN <<ContentDelta(chunk.content)>> ELSE <<>>
            ctc2 == IF chunk.tool_calls # <<>>
                    THEN ApplyFragments(ctc, chunk.tool_calls) ELSE ctc
            toolOut == IF ShouldFinalize(chunk, ctc2) /\ Finalize(ctc2) # <<>>
                       THEN <<ToolCallsDelta(Finalize(ctc2))>> ELSE <<>>
        IN  [ctc |-> ctc2, out |-> toolOut \o contentOut]

\* one iteration of `async for chunk in stream`: the accumulator after the
\* chunk and the deltas yielded while processing it
TransformChunk(ctc, chunk) ==
    IF ~chunk.choices THEN [ctc |-> ctc, out |-> <<>>]
    ELSE
        LET contentOut == IF chunk.content # <<>>
                          THEN <<ContentDelta(chunk.content)>> ELSE <<>>
            ctc2 == IF chunk.tool_calls # <<>>
                    THEN ApplyFragments(ctc, chunk.tool_calls) ELSE ctc
            toolOut == IF ShouldFinalize(chunk, ctc2) /\ Finalize(ctc2) # <<>>
                       THEN <<ToolCallsDelta(Finalize(ctc2))>> ELSE <<>>
        IN  [ctc |-> ctc2, out |-> contentOut \o toolOut]

\* the whole generator over a finite stream: [ctc, out]
RECURSIVE TransformStream(_, _)
TransformStream(ctc, s) ==
    IF s = <<>> THEN [ctc |-> ctc, out |-> <<>>]
    ELSE LET one == TransformChunk(ctc, Head(s))
             rest == TransformStream(one.ctc, Tail(s))
         IN  [ctc |-> rest.ctc, out |-> one.out \o rest.out]

----------------------------------------------------------------------------
(* Chunks the remote model may send *)

Fragment(i, d, n, a) ==
    [index |-> i, id |-> d, function |-> (n # "" \/ a # <<>>), name |-> n,
     arguments |-> a]

Chunk(c, frags, fin) ==
    [choices |-> TRUE, content |-> c, tool_calls |-> frags,
     finish_reason |-> fin]

\* a chunk with an empty `choices` list
Heartbeat ==
    [choices |-> FALSE, content |-> <<>>, tool_calls |-> <<>>,
     finish_reason |-> "none"]

ArgsOpen == <<"{", "x", ":">>
ArgsClose == <<"1", "}">>

ChunkSet ==
    { Heartbeat,
      Chunk(<<"h">>, <<>>, "none"),
      Chunk(<<>>, <<>>, "stop"),
      Chunk(<<>>, <<>>, "tool_calls"),
      Chunk(<<>>, <<Fragment(0, "a", "", <<>>)>>, "none"),
      Chunk(<<>>, <<Fragment(0, "", "f", <<>>)>>, "none"),
      Chunk(<<>>, <<Fragment(0, "", "", ArgsOpen)>>, "none"),
      Chunk(<<>>, <<Fragment(0, "", "", ArgsClose)>>, "none"),
      Chunk(<<>>, <<Fragment(1, "b", "g", <<"{">>)>>, "none"),
      Chunk(<<"i">>, <<Fragment(1, "", "", <<"}">>),
                       Fragment(0, "", "", ArgsClose)>>, "tool_calls") }

----------------------------------------------------------------------------
(* The aggregator on its own: any stream of at most MaxChunks chunks *)

NoOutcome == [kind |-> "none", transcript |-> <<>>]

\* _transform_stream consumes one chunk
Consume(chunk) ==
    LET r == TransformChunk(current_tool_calls, chunk) IN
    /\ chunks' = Append(chunks, chunk)
    /\ current_tool_calls' = r.ctc
    /\ events' = events \o r.out
    /\ UNCHANGED sideVars

InitStream ==
    /\ pc = "Streaming"
    /\ iteration = 1
    /\ requests = 1
    /\ chat_log = <<>>
    /\ messages = <<>>
    /\ stream = <<>>
    /\ chunks = <<>>
    /\ current_tool_calls = <<>>
    /\ events = <<>>
    /\ queue = <<>>
    /\ executed = <<>>
    /\ served = <<>>
    /\ failedAt = 0
    /\ outcome = NoOutcome
    /\ assistantAt = 0
    /\ log0 = <<>>
    /\ budget = 0
    /\ CacheUnused
    /\ SchemaUnused

ReceiveChunk ==
    /\ Len(chunks) < MaxChunks
    /\ \E chunk \in ChunkSet : Consume(chunk)
    /\ UNCHANGED loopVars

NextStream == ReceiveChunk

SpecStream == InitStream /\ [][NextStream]_vars

----------------------------------------------------------------------------
(* Chat log content and outgoing messages *)

NoResult == [path |-> <<>>, leaf |-> <<>>]

SystemContent(text) ==
    [role |-> "system", content |-> text, tool_calls |-> <<>>,
     tool_call_id |-> "", tool_result |-> NoResult]

UserContent(text) ==
    [role |-> "user", content |-> text, tool_calls |-> <<>>,
     tool_call_id |-> "", tool_result |-> NoResult]

\* conversation.AssistantContent(content=current_content or None,
\*                               tool_calls=current_tool_calls or None)
AssistantContent(text, calls) ==
    [role |-> "assistant", content |-> text, tool_calls |-> calls,
     tool_call_id |-> "", tool_result |-> NoResult]

\* conversation.ToolResultContent(tool_call_id=tool_input.id, tool_result=...)
ToolResultContent(call, result) ==
    [role |-> "tool_result", content |-> <<>>, tool_calls |-> <<>>,
     tool_call_id |-> call.id, tool_result |-> result]

ToolCallDict(tool_call) ==
    [id |-> tool_call.id, type |-> "function",
     function |-> [name |-> tool_call.tool_name,
                   arguments |-> JsonDumps(tool_call.tool_args)]]

Message(role, text, calls, id) ==
    [role |-> role, content |-> text, tool_calls |-> calls, tool_call_id |-> id]

\* the messages one chat log entry converts to (none for an unknown role)
ConvertContent(content) ==
    IF content.role = "system" THEN
        <<Message("system", content.content, <<>>, "")>>
    ELSE IF content.role = "user" THEN
        <<Message("user", content.content, <<>>, "")>>
    ELSE IF content.role = "assistant" THEN
        <<Message("assistant", content.content,
                  [j \in 1..Len(content.tool_calls) |->
                      ToolCallDict(content.tool_calls[j])], "")>>
    ELSE IF content.role = "tool_result" THEN
        <<Message("tool", JsonDumps(content.tool_result), <<>>,
                  content.tool_call_id)>>
    ELSE <<>>

\* _convert_messages(chat_log)
ConvertMessages(log) ==
    Flatten([i \in 1..Len(log) |-> ConvertContent(log[i])])

\* variant of LoopAssistantMessage: the tool calls are left out
LoopAssistantMessage_NoCalls(content) ==
    Message("assistant", content.content, <<>>, "")

\* the message the loop appends for a yielded assistant content
LoopAssistantMessage(content) ==
    Message("assistant", content.content,
            [j \in 1..Len(content.tool_calls) |->
                ToolCallDict(content.tool_calls[j])], "")

\* variant of LoopToolMessage: the correlation id is left out
LoopToolMessage_NoId(content) ==
    Message("tool", JsonDumps(content.tool_result), <<>>, "")

\* the message the loop appends for a yielded tool result
LoopToolMessage(content) ==
    Message("tool", JsonDumps(content.tool_result), <<>>, content.tool_call_id)

----------------------------------------------------------------------------
(* The remote model's responses and the tool executor's results *)

CallA == Fragment(0, "a", "f", <<"{", "}">>)

\* one well-formed tool call: fragments, then one finish chunk
ToolCallResponse ==
    <<Chunk(<<>>, <<CallA>>, "none"), Chunk(<<>>, <<>>, "tool_calls")>>

\* plain content, no tool call
ContentResponse ==
    <<Chunk(<<"h">>, <<>>, "none"), Chunk(<<"i">>, <<>>, "stop")>>

\* nothing: a heartbeat and a bare finish
EmptyResponse ==
    <<Heartbeat, Chunk(<<>>, <<>>, "stop")>>

\* a tool call followed by two chunks that both carry finish reason tool_calls
RepeatedFinishResponse ==
    <<Chunk(<<>>, <<CallA>>, "none"), Chunk(<<>>, <<>>, "tool_calls"),
      Chunk(<<>>, <<>>, "tool_calls")>>

\* content and two interleaved calls, index 1 first
TwoCallsResponse ==
    <<Chunk(<<"h">>, <<Fragment(1, "b", "g", <<"{">>),
                       Fragment(0, "a", "f", ArgsOpen)>>, "none"),
      Chunk(<<>>, <<Fragment(0, "", "", ArgsClose),
                    Fragment(1, "", "", <<"}">>)>>, "tool_calls")>>

\* a call whose arguments do not parse
UnparsableResponse ==
    <<Chunk(<<>>, <<Fragment(0, "a", "f", ArgsClose)>>, "tool_calls")>>

DefaultResponses == {ToolCallResponse, ContentResponse}

DeviantResponses ==
    {EmptyResponse, RepeatedFinishResponse, TwoCallsResponse,
     UnparsableResponse}

\* {"success": true}
ResultOk == [path |-> <<"success">>, leaf |-> <<"true">>]
\* {"error": "HomeAssistantError"}, the serialized tool failure
ResultError == [path |-> <<"error">>, leaf |-> <<"HomeAssistantError">>]

\* the chat log handed to the loop: a lone user message, or a system prompt
\* and an earlier exchange followed by the new user message
InitialLogs ==
    { <<UserContent(<<"u">>)>>,
      <<SystemContent(<<"s">>), UserContent(<<"u">>),
        AssistantContent(<<"h">>, <<>>), UserContent(<<"u">>)>> }

----------------------------------------------------------------------------
(***************************************************************************)
(* _async_handle_message and _async_handle_chat_log                        *)
(*                                                                         *)
(* The chat log is the host framework's (Home Assistant's ChatLog):        *)
(*  - async_add_delta_content_stream sums the deltas of a stream that      *)
(*    carries no role delta into one assistant content, adds it to the     *)
(*    log when it has content or tool calls and yields it; it then runs    *)
(*    every entry of its tool_calls in order through the LLM API, adds     *)
(*    each result (a tool failure is serialized into the result) and       *)
(*    yields it;                                                           *)
(*  - unresponded_tool_results is true when the last entry of the log is   *)
(*    a tool result.                                                       *)
(* The invocations modelled are those with chat_log.llm_api set, so that   *)
(* tools are offered and tool calls can be run.                            *)
(***************************************************************************)

\* variant of UnrespondedToolResults: a tool result anywhere in the log
UnrespondedToolResults_Any(log) ==
    \E i \in 1..Len(log) : log[i].role = "tool_result"

\* chat_log.unresponded_tool_results: the last entry is a tool result
UnrespondedToolResults(log) ==
    log # <<>> /\ Last(log).role = "tool_result"

\* variant of RangeExhausted: one iteration too many
RangeExhausted_OffByOne(i) == i >= MAX_TOOL_ITERATIONS + 1

\* range(MAX_TOOL_ITERATIONS) has no further value after i iterations
RangeExhausted(i) == i >= MAX_TOOL_ITERATIONS

\* variant of AfterRound: the break is missing
AfterRound_NoBreak(log, i) ==
    IF RangeExhausted(i) THEN "Done" ELSE "Requesting"

\* variant of AfterRound: running out of iterations raises
AfterRound_RaiseAtBound(log, i) ==
    IF ~UnrespondedToolResults(log) THEN "Done"
    ELSE IF RangeExhausted(i) THEN "Failed"
    ELSE "Requesting"

\* variant of AfterRound: with results to send and iterations left the
\* loop stays where it is
AfterRound_Wait(log, i) ==
    IF ~UnrespondedToolResults(log) THEN "Done"
    ELSE IF RangeExhausted(i) THEN "Done"
    ELSE "ExecutingTools"

\* where the loop goes once the stream of iteration i is consumed:
\* `if not chat_log.unresponded_tool_results: break`, else the next iteration,
\* else the end of the for statement
AfterRound(log, i) ==
    IF ~UnrespondedToolResults(log) THEN "Done"
    ELSE IF RangeExhausted(i) THEN "Done"
    ELSE "Requesting"

\* variant of OnRequestError: the request is tried again
OnRequestError_Retry == "Requesting"

\* `except Exception as err: ... raise HomeAssistantError(...) from err`
OnRequestError == "Failed"

\* variant of OutcomeAt: the error is swallowed and the log returned
OutcomeAt_ReturnsLog(to, log, was) ==
    IF to \in {"Failed", "Done"} THEN [kind |-> "result", transcript |-> log]
    ELSE was

\* what the caller of _async_handle_message gets when the invocation moves
\* to `to`: the raised error, or the result built from the chat log
OutcomeAt(to, log, was) ==
    IF to = "Failed" THEN [kind |-> "error", transcript |-> <<>>]
    ELSE IF to = "Done" THEN [kind |-> "result", transcript |-> log]
    ELSE was

\* the ChatLog's pending assistant message: the deltas of the stream summed
PendingContent(evs) ==
    Flatten([i \in 1..Len(evs) |-> evs[i].content])

PendingToolCalls(evs) ==
    Flatten([i \in 1..Len(evs) |-> evs[i].tool_calls])

Init ==
    /\ pc = "Start"
    /\ iteration = 0
    /\ requests = 0
    /\ chat_log \in InitialLogs
    /\ log0 = chat_log
    /\ messages = <<>>
    /\ stream = <<>>
    /\ chunks = <<>>
    /\ current_tool_calls = <<>>
    /\ events = <<>>
    /\ queue = <<>>
    /\ executed = <<>>
    /\ served = <<>>
    /\ failedAt = 0
    /\ outcome = NoOutcome
    /\ assistantAt = 0
    /\ budget = MaxDeviations
    /\ CacheUnused
    /\ SchemaUnused

\* _async_handle_message up to the call of _async_handle_chat_log, and the
\* start of that: messages = _convert_messages(chat_log)
ProvideLlmData ==
    /\ pc = "Start"
    /\ \/ /\ pc' = "Requesting"
          /\ messages' = ConvertMessages(chat_log)
          /\ outcome' = outcome
       \/ /\ pc' = "Aborted"
          /\ messages' = messages
          /\ outcome' = [kind |-> "converse_error", transcript |-> <<>>]
    /\ UNCHANGED <<iteration, requests, chat_log, stream, queue, executed,
                   served, failedAt, assistantAt, log0, budget>>
    /\ UNCHANGED streamVars
    /\ UNCHANGED sideVars

\* one iteration starts: await self.client.chat.completions.create(...)
Request ==
    /\ pc = "Requesting"
    /\ iteration' = iteration + 1
    /\ requests' = requests + 1
    /\ \/ /\ pc' = OnRequestError
          /\ failedAt' = requests + 1
          /\ outcome' = OutcomeAt(pc', chat_log, outcome)
          /\ UNCHANGED <<stream, served, budget>>
          /\ UNCHANGED streamVars
       \/ \E s \in DefaultResponses \cup DeviantResponses :
          /\ s \in DeviantResponses => budget > 0
          /\ budget' = IF s \in DeviantResponses THEN budget - 1 ELSE budget
          /\ pc' = "Streaming"
          /\ stream' = s
          /\ served' = Append(served, s)
          /\ chunks' = <<>>
          /\ current_tool_calls' = FreshAccumulator
          /\ events' = <<>>
          /\ UNCHANGED <<failedAt, outcome>>
    /\ assistantAt' = 0
    /\ UNCHANGED <<chat_log, messages, queue, executed, log0>>
    /\ UNCHANGED sideVars

\* the stream delivers its next chunk to _transform_stream
StreamChunk ==
    /\ pc = "Streaming"
    /\ stream # <<>>
    /\ Consume(Head(stream))
    /\ stream' = Tail(stream)
    /\ UNCHANGED <<pc, iteration, requests, chat_log, messages, queue,
                   executed, served, failedAt, outcome, assistantAt, log0,
                   budget>>

\* variant of StreamEnd: in the last iteration the tool calls are not run
StreamEnd_SkipAtBound ==
    /\ pc = "Streaming"
    /\ stream = <<>>
    /\ LET text == PendingContent(events)
           calls == PendingToolCalls(events)
           content == AssistantContent(text, calls)
       IN  IF text # <<>> \/ calls # <<>>
           THEN /\ chat_log' = Append(chat_log, content)
                /\ messages' = Append(messages, LoopAssistantMessage(content))
                /\ assistantAt' = Len(chat_log) + 1
                /\ queue' = IF RangeExhausted(iteration) THEN <<>> ELSE calls
           ELSE UNCHANGED <<chat_log, messages, assistantAt, queue>>
    /\ pc' = "ExecutingTools"
    /\ UNCHANGED <<iteration, requests, stream, executed, served, failedAt,
                   outcome, log0, budget>>
    /\ UNCHANGED streamVars
    /\ UNCHANGED sideVars

\* the stream ends: the ChatLog adds the pending assistant message, if it has
\* content or tool calls, and yields it; the loop appends it to messages
StreamEnd ==
    /\ pc = "Streaming"
    /\ stream = <<>>
    /\ LET text == PendingContent(events)
           calls == PendingToolCalls(events)
           content == AssistantContent(text, calls)
       IN  IF text # <<>> \/ calls # <<>>
           THEN /\ chat_log' = Append(chat_log, content)
                /\ messages' = Append(messages, LoopAssistantMessage(content))
                /\ assistantAt' = Len(chat_log) + 1
                /\ queue' = calls
           ELSE UNCHANGED <<chat_log, messages, assistantAt, queue>>
    /\ pc' = "ExecutingTools"
    /\ UNCHANGED <<iteration, requests, stream, executed, served, failedAt,
                   outcome, log0, budget>>
    /\ UNCHANGED streamVars
    /\ UNCHANGED sideVars

\* variant of ExecuteTool: the oldest message is dropped on append
ExecuteTool_Trimmed ==
    /\ pc = "ExecutingTools"
    /\ queue # <<>>
    /\ \E result \in {ResultOk, ResultError} :
        /\ result = ResultError => budget > 0
        /\ budget' = IF result = ResultError THEN budget - 1 ELSE budget
        /\ LET content == ToolResultContent(Head(queue), result) IN
            /\ chat_log' = Append(chat_log, content)
            /\ messages' = Append(Tail(messages), LoopToolMessage(content))
    /\ executed' = Append(executed, [round |-> iteration, id |-> Head(queue).id])
    /\ queue' = Tail(queue)
    /\ UNCHANGED <<pc, iteration, requests, stream, served, failedAt, outcome,
                   assistantAt, log0>>
    /\ UNCHANGED streamVars
    /\ UNCHANGED sideVars

\* the ChatLog runs the next tool call of the assistant message, adds the
\* result and yields it; the loop appends it to messages
ExecuteTool ==
    /\ pc = "ExecutingTools"
    /\ queue # <<>>
    /\ \E result \in {ResultOk, ResultError} :
        /\ result = ResultError => budget > 0
        /\ budget' = IF result = ResultError THEN budget - 1 ELSE budget
        /\ LET content == ToolResultContent(Head(queue), result) IN
            /\ chat_log' = Append(chat_log, content)
            /\ messages' = Append(messages, LoopToolMessage(content))
    /\ executed' = Append(executed, [round |-> iteration, id |-> Head(queue).id])
    /\ queue' = Tail(queue)
    /\ UNCHANGED <<pc, iteration, requests, stream, served, failedAt, outcome,
                   assistantAt, log0>>
    /\ UNCHANGED streamVars
    /\ UNCHANGED sideVars

\* variant of RoundEnd: the async for is left before its last result
RoundEnd_Early ==
    /\ pc = "ExecutingTools"
    /\ pc' = AfterRound(chat_log, iteration)
    /\ outcome' = OutcomeAt(pc', chat_log, outcome)
    /\ UNCHANGED <<iteration, requests, chat_log, messages, stream, queue,
                   executed, served, failedAt, assistantAt, log0, budget>>
    /\ UNCHANGED streamVars
    /\ UNCHANGED sideVars

\* the `async for content in ...` is over: break, iterate again, or fall out
\* of the for statement; on return _async_handle_message builds the result
RoundEnd ==
    /\ pc = "ExecutingTools"
    /\ queue = <<>>
    /\ pc' = AfterRound(chat_log, iteration)
    /\ outcome' = OutcomeAt(pc', chat_log, outcome)
    /\ UNCHANGED <<iteration, requests, chat_log, messages, stream, queue,
                   executed, served, failedAt, assistantAt, log0, budget>>
    /\ UNCHANGED streamVars
    /\ UNCHANGED sideVars

Next ==
    \/ ProvideLlmData
    \/ Request
    \/ StreamChunk
    \/ StreamEnd
    \/ ExecuteTool
    \/ RoundEnd

Spec == Init /\ [][Next]_vars

\* every completion request responds or fails, every stream ends, every
\* tool execution returns, and the coroutine is resumed after each await
Fairness ==
    /\ WF_vars(ProvideLlmData)
    /\ WF_vars(Request)
    /\ WF_vars(StreamChunk)
    /\ WF_vars(StreamEnd)
    /\ WF_vars(ExecuteTool)
    /\ WF_vars(RoundEnd)

\* as Init, on the shortest chat log and with MaxLiveDeviations
InitLive ==
    /\ pc = "Start"
    /\ iteration = 0
    /\ requests = 0
    /\ chat_log = <<UserContent(<<"u">>)>>
    /\ log0 = chat_log
    /\ messages = <<>>
    /\ stream = <<>>
    /\ chunks = <<>>
    /\ current_tool_calls = <<>>
    /\ events = <<>>
    /\ queue = <<>>
    /\ executed = <<>>
    /\ served = <<>>
    /\ failedAt = 0
    /\ outcome = NoOutcome
    /\ assistantAt = 0
    /\ budget = MaxLiveDeviations
    /\ CacheUnused
    /\ SchemaUnused

SpecLive == InitLive /\ [][Next]_vars /\ Fairness

----------------------------------------------------------------------------
(* One round of the loop on any stream of at most MaxRoundChunks chunks *)

\* the chunks of ChunkSet, one that carries a whole tool call and one that
\* carries another id and another name for index 0
RoundChunkSet ==
    ChunkSet \cup {Chunk(<<>>, <<CallA>>, "none"),
                   Chunk(<<>>, <<Fragment(0, "c", "h", <<>>)>>, "none")}

\* chat logs as InitialLogs, and one whose earlier assistant entry has
\* neither content nor tool calls (content=None, tool_calls=None)
RoundLogs ==
    InitialLogs \cup
    { <<UserContent(<<"u">>), AssistantContent(<<>>, <<>>),
        UserContent(<<"u">>)>> }

\* the first request has been answered: the stream is about to be consumed
InitRound ==
    /\ pc = "Streaming"
    /\ iteration = 1
    /\ requests = 1
    /\ chat_log \in RoundLogs
    /\ log0 = chat_log
    /\ messages = ConvertMessages(chat_log)
    /\ stream = <<>>
    /\ chunks = <<>>
    /\ current_tool_calls = FreshAccumulator
    /\ events = <<>>
    /\ queue = <<>>
    /\ executed = <<>>
    /\ served = <<>>
    /\ failedAt = 0
    /\ outcome = NoOutcome
    /\ assistantAt = 0
    /\ budget = MaxDeviations
    /\ CacheUnused
    /\ SchemaUnused

\* the stream delivers one more chunk, whatever it is
RoundChunk ==
    /\ pc = "Streaming"
    /\ Len(chunks) < MaxRoundChunks
    /\ \E chunk \in RoundChunkSet : Consume(chunk)
    /\ UNCHANGED loopVars

NextRound ==
    \/ RoundChunk
    \/ StreamEnd
    \/ ExecuteTool
    \/ RoundEnd

SpecRound == InitRound /\ [][NextRound]_vars

----------------------------------------------------------------------------
(***************************************************************************)
(* ModelCache (helpers.py)                                                 *)
(*                                                                         *)
(* A model id is a sequence of tokens; time is counted in hours.  The      *)
(* callers are coroutines of one event loop: they interleave only at the   *)
(* awaits of get_models (the lock and client.models.list()).               *)
(***************************************************************************)

\* timedelta(minutes=ttl_minutes), ttl_minutes = 60: one hour
TTL == 1

Callers == 1..MaxCallers

\* str.lower on a token
Lower(tok) ==
    CASE tok = "Whisper" -> "whisper"
      [] tok = "Orpheus" -> "orpheus"
      [] OTHER -> tok

ModelLower(id) == [i \in 1..Len(id) |-> Lower(id[i])]

\* `pattern in text`
Has(text, pattern) == \E i \in 1..Len(text) : text[i] = pattern

\* the if/elif/else of the categorization
Category(id) ==
    LET model_lower == ModelLower(id) IN
    IF Has(model_lower, "whisper") THEN "stt"
    ELSE IF Has(model_lower, "orpheus") \/ Has(model_lower, "tts") THEN "tts"
    ELSE "chat"

\* the order of str comparison on the tokens used (upper case first)
CodePoint(tok) ==
    CASE tok = "Orpheus" -> 1
      [] tok = "Whisper" -> 2
      [] tok = "canopylabs" -> 3
      [] tok = "gemma" -> 4
      [] tok = "large" -> 5
      [] tok = "llama" -> 6
      [] tok = "mixtral" -> 7
      [] tok = "orpheus" -> 8
      [] tok = "play" -> 9
      [] tok = "tts" -> 10
      [] tok = "versatile" -> 11
      [] OTHER -> 12

\* a < b on model ids
RECURSIVE IdLess(_, _)
IdLess(a, b) ==
    IF b = <<>> THEN FALSE
    ELSE IF a = <<>> THEN TRUE
    ELSE IF CodePoint(Head(a)) # CodePoint(Head(b))
         THEN CodePoint(Head(a)) < CodePoint(Head(b))
    ELSE IdLess(Tail(a), Tail(b))

\* x put into the sorted list s, after the elements not greater than it
RECURSIVE Insert(_, _)
Insert(s, x) ==
    IF s = <<>> THEN <<x>>
    ELSE IF IdLess(x, Head(s)) THEN <<x>> \o s
    ELSE <<Head(s)>> \o Insert(Tail(s), x)

\* sorted(list)
RECURSIVE Sorted(_)
Sorted(s) ==
    IF s = <<>> THEN <<>>
    ELSE Insert(Sorted(SubSeq(s, 1, Len(s) - 1)), s[Len(s)])

\* the fallback lists of const.py
CHAT_MODELS == << <<"llama", "versatile">>, <<"mixtral">> >>
STT_MODELS == << <<"whisper", "large">> >>
TTS_MODELS == << <<"canopylabs", "orpheus">> >>

\* response.data of client.models.list()
ModelLists ==
    { <<>>,
      << <<"llama">>, <<"gemma">> >>,
      << <<"Whisper", "large">>, <<"play", "tts">>, <<"llama">> >>,
      << <<"whisper", "tts">>, <<"Orpheus">> >> }

\* the ids of response.data that fall into one category, in response order
OfCategory(data, cat) == SelectSeq(data, LAMBDA id : Category(id) = cat)

\* `if chat_models: self._chat_models = sorted(chat_models)`
Updated(old, found) ==
    IF found # <<>> THEN [set |-> TRUE, ids |-> Sorted(found)] ELSE old

\* variant of OnFetchError: the fallback replaces what was cached
OnFetchError_Reset(old, static) == [set |-> TRUE, ids |-> static]

\* `if self._chat_models is None: self._chat_models = CHAT_MODELS`
OnFetchError(old, static) ==
    IF ~old.set THEN [set |-> TRUE, ids |-> static] ELSE old

\* `self._chat_models or CHAT_MODELS`
OrStatic(list, static) ==
    IF list.set /\ list.ids # <<>> THEN list.ids ELSE static

\* variant of IsExpired: the cache always counts as expired
IsExpired_Always(updated, t) == TRUE

\* ModelCache.is_expired
IsExpired(updated, t) ==
    IF ~updated.set THEN TRUE ELSE t - updated.at > TTL

\* variant of LockFree: the lock is not looked at
LockFree_Ignored(l) == TRUE

\* asyncio.Lock: acquire returns when no coroutine holds the lock
LockFree(l) == l = 0

NotReturned == [kind |-> "none", chat |-> <<>>, stt |-> <<>>, tts |-> <<>>]

\* the tuple get_models returns
Returned(chat, stt, tts) ==
    [kind |-> "value",
     chat |-> OrStatic(chat, CHAT_MODELS),
     stt |-> OrStatic(stt, STT_MODELS),
     tts |-> OrStatic(tts, TTS_MODELS)]

\* a caller: where it is in get_models, the remote calls of its current
\* call, how its refresh ended, and what the call returned
Caller(at, n, how, res) ==
    [pc |-> at, fetches |-> n, refresh |-> how, result |-> res]

\* the module-level _model_cache = ModelCache(), nobody calling yet
InitCache ==
    /\ chat_models = None
    /\ stt_models = None
    /\ tts_models = None
    /\ last_updated = Never
    /\ lock = 0
    /\ now = 0
    /\ callers = [c \in Callers |-> Caller("idle", 0, "none", NotReturned)]
    /\ started = 0
    /\ AgentUnused
    /\ SchemaUnused

\* a coroutine calls get_models and reaches `async with self._lock`
GetModels ==
    /\ started < MaxCalls
    /\ \E c \in Callers :
        /\ callers[c].pc \in {"idle", "returned"}
        /\ callers' = [callers EXCEPT
                          ![c] = Caller("waiting", 0, "none", NotReturned)]
    /\ started' = started + 1
    /\ UNCHANGED <<chat_models, stt_models, tts_models, last_updated, lock,
                   now>>
    /\ UNCHANGED <<loopVars, streamVars, schemaVars>>

\* a caller gets the lock and runs to its next await: with an expired cache
\* to client.models.list(), else through the return, which frees the lock
AcquireLock ==
    /\ LockFree(lock)
    /\ \E c \in Callers :
        /\ callers[c].pc = "waiting"
        /\ IF IsExpired(last_updated, now)
           THEN /\ lock' = c
                /\ callers' = [callers EXCEPT
                       ![c] = Caller("fetching", callers[c].fetches + 1,
                                     "none", NotReturned)]
           ELSE /\ lock' = 0
                /\ callers' = [callers EXCEPT
                       ![c] = Caller("returned", callers[c].fetches, "none",
                                     Returned(chat_models, stt_models,
                                              tts_models))]
    /\ UNCHANGED <<chat_models, stt_models, tts_models, last_updated, now,
                   started>>
    /\ UNCHANGED <<loopVars, streamVars, schemaVars>>

\* variant of FetchReturns: the time of the refresh is not recorded
FetchReturns_NoStamp ==
    \E c \in Callers, data \in ModelLists :
        /\ callers[c].pc = "fetching"
        /\ chat_models' = Updated(chat_models, OfCategory(data, "chat"))
        /\ stt_models' = Updated(stt_models, OfCategory(data, "stt"))
        /\ tts_models' = Updated(tts_models, OfCategory(data, "tts"))
        /\ callers' = [callers EXCEPT
               ![c] = Caller("returned", callers[c].fetches, "ok",
                             Returned(chat_models', stt_models',
                                      tts_models'))]
        /\ lock' = 0
        /\ UNCHANGED <<last_updated, now, started>>
        /\ UNCHANGED <<loopVars, streamVars, schemaVars>>

\* client.models.list() answers: the try block runs to its end, get_models
\* returns and the lock is freed
FetchReturns ==
    \E c \in Callers, data \in ModelLists :
        /\ callers[c].pc = "fetching"
        /\ chat_models' = Updated(chat_models, OfCategory(data, "chat"))
        /\ stt_models' = Updated(stt_models, OfCategory(data, "stt"))
        /\ tts_models' = Updated(tts_models, OfCategory(data, "tts"))
        /\ last_updated' = [set |-> TRUE, at |-> now]
        /\ callers' = [callers EXCEPT
               ![c] = Caller("returned", callers[c].fetches, "ok",
                             Returned(chat_models', stt_models',
                                      tts_models'))]
        /\ lock' = 0
        /\ UNCHANGED <<now, started>>
        /\ UNCHANGED <<loopVars, streamVars, schemaVars>>

\* variant of FetchRaises: the failed refresh records its time
FetchRaises_Stamps ==
    \E c \in Callers :
        /\ callers[c].pc = "fetching"
        /\ chat_models' = OnFetchError(chat_models, CHAT_MODELS)
        /\ stt_models' = OnFetchError(stt_models, STT_MODELS)
        /\ tts_models' = OnFetchError(tts_models, TTS_MODELS)
        /\ last_updated' = [set |-> TRUE, at |-> now]
        /\ callers' = [callers EXCEPT
               ![c] = Caller("returned", callers[c].fetches, "failed",
                             Returned(chat_models', stt_models',
                                      tts_models'))]
        /\ lock' = 0
        /\ UNCHANGED <<now, started>>
        /\ UNCHANGED <<loopVars, streamVars, schemaVars>>

\* client.models.list() raises: the except block runs, get_models returns
\* and the lock is freed
FetchRaises ==
    \E c \in Callers :
        /\ callers[c].pc = "fetching"
        /\ chat_models' = OnFetchError(chat_models, CHAT_MODELS)
        /\ stt_models' = OnFetchError(stt_models, STT_MODELS)
        /\ tts_models' = OnFetchError(tts_models, TTS_MODELS)
        /\ callers' = [callers EXCEPT
               ![c] = Caller("returned", callers[c].fetches, "failed",
                             Returned(chat_models', stt_models',
                                      tts_models'))]
        /\ lock' = 0
        /\ UNCHANGED <<last_updated, now, started>>
        /\ UNCHANGED <<loopVars, streamVars, schemaVars>>

\* an hour passes
Tick ==
    /\ now < MaxHours
    /\ now' = now + 1
    /\ UNCHANGED <<chat_models, stt_models, tts_models, last_updated, lock,
                   callers, started>>
    /\ UNCHANGED <<loopVars, streamVars, schemaVars>>

NextCache ==
    \/ GetModels
    \/ AcquireLock
    \/ FetchReturns
    \/ FetchRaises
    \/ Tick

SpecCache == InitCache /\ [][NextCache]_vars

----------------------------------------------------------------------------
(***************************************************************************)
(* convert (voluptuous_to_jsonschema.py)                                   *)
(*                                                                         *)
(* A validator value is [kind, name, items]: a type marker or Coerce with  *)
(* the type's name, In with its container, a list with its elements, a     *)
(* vol.Schema with the value it wraps, a mapping with its entries in       *)
(* iteration order (each entry: the key's marker, its name, its value),    *)
(* or something else (a callable, a selector, a literal).                  *)
(***************************************************************************)

Value(k, n, its) == [kind |-> k, name |-> n, items |-> its]

TypeMarker(t) == Value("type", t, <<>>)
Coerce(t) == Value("coerce", t, <<>>)
Literal(x) == Value("literal", x, <<>>)
In(container, its) == Value("in", container, its)
List(its) == Value("list", "", its)
SchemaOf(v) == Value("schema", "", <<v>>)
Lambda == Value("callable", "", <<>>)
Selector == Value("selector", "", <<>>)
Key(marker, n, v) == Value(marker, n, <<v>>)
MappingOf(entries) == Value("mapping", "", entries)

\* _type_schema
TypeSchema(py_type) ==
    IF py_type = "str"
    THEN [EmptyFragment EXCEPT !.keys = <<"type">>, !.type = "string"]
    ELSE IF py_type = "int"
    THEN [EmptyFragment EXCEPT !.keys = <<"type">>, !.type = "integer"]
    ELSE IF py_type = "float"
    THEN [EmptyFragment EXCEPT !.keys = <<"type">>, !.type = "number"]
    ELSE IF py_type = "bool"
    THEN [EmptyFragment EXCEPT !.keys = <<"type">>, !.type = "boolean"]
    ELSE EmptyFragment

\* the mapping a serializer returns for the value, marked by its kind
CustomFragment(value) ==
    [EmptyFragment EXCEPT !.keys = <<"custom">>, !.custom = value.kind]

\* a return value of a serializer that is not a Mapping
Unsupported ==
    [EmptyFragment EXCEPT !.keys = <<"UNSUPPORTED">>, !.custom = "UNSUPPORTED"]

\* the callbacks handed to convert: none; one that knows selectors, answers
\* a non-mapping for type markers and raises otherwise; one that returns a
\* mapping for every value; one that always raises
Serializers == {"none", "selector", "any", "raising"}

\* custom_serializer(value)
CallSerializer(ser, value) ==
    IF ser = "any"
    THEN [outcome |-> "mapping", returned |-> CustomFragment(value)]
    ELSE IF ser = "selector" /\ value.kind = "selector"
    THEN [outcome |-> "mapping", returned |-> CustomFragment(value)]
    ELSE IF ser = "selector" /\ value.kind = "type"
    THEN [outcome |-> "other", returned |-> Unsupported]
    ELSE [outcome |-> "raise", returned |-> EmptyFragment]

\* variant of Serialized: whatever the callback returns is used
Serialized_NoCheck(ser, value) ==
    IF ser = "none" THEN [ok |-> FALSE, mapping |-> EmptyFragment]
    ELSE LET r == CallSerializer(ser, value) IN
         [ok |-> r.outcome # "raise", mapping |-> r.returned]

\* rule 1 of _convert_value: the try/except around the callback and the
\* isinstance(serialized, Mapping) test; ok: dict(serialized) is returned
Serialized(ser, value) ==
    IF ser = "none" THEN [ok |-> FALSE, mapping |-> EmptyFragment]
    ELSE LET r == CallSerializer(ser, value) IN
         IF r.outcome = "mapping"
         THEN [ok |-> TRUE, mapping |-> r.returned]
         ELSE [ok |-> FALSE, mapping |-> EmptyFragment]

\* _key_name
KeyName(key) == key.name

\* variant of IsRequired: every marked key counts
IsRequired_AnyMarker(key) == key.kind \in {"Required", "Optional"}

\* _is_required
IsRequired(key) == key.kind = "Required"

\* properties[name] = fragment, on a dict kept as a sequence of items
DictSet(properties, name, fragment) ==
    IF \E i \in 1..Len(properties) : properties[i].name = name
    THEN [i \in 1..Len(properties) |->
             IF properties[i].name = name
             THEN [name |-> name, schema |-> fragment]
             ELSE properties[i]]
    ELSE Append(properties, [name |-> name, schema |-> fragment])

\* variant of Fallback: anything unknown is taken for a string
Fallback_String == [EmptyFragment EXCEPT !.keys = <<"type">>, !.type = "string"]

\* `# Fallback: allow anything` of _convert_value
Fallback == EmptyFragment

\* `# Unknown shape: best-effort` of convert
UnknownShape ==
    [EmptyFragment EXCEPT !.keys = <<"type", "additionalProperties">>,
                          !.type = "object", !.additionalProperties = TRUE]

RECURSIVE ConvertValue(_, _)
RECURSIVE Recognize(_, _)
RECURSIVE MappingLoop(_, _, _, _)
RECURSIVE ConvertMapping(_, _)
RECURSIVE Convert(_, _)

\* _convert_value
ConvertValue(value, ser) ==
    IF Serialized(ser, value).ok THEN Serialized(ser, value).mapping
    ELSE Recognize(value, ser)

\* _convert_value after the custom serializer
Recognize(value, ser) ==
    IF value.kind = "schema" THEN Convert(value, ser)
    ELSE IF value.kind = "mapping" THEN ConvertMapping(value.items, ser)
    ELSE IF value.kind = "list" /\ value.items # <<>>
    THEN [EmptyFragment EXCEPT
             !.keys = <<"type", "items">>, !.type = "array",
             !.items = <<ConvertValue(value.items[1], ser)>>]
    ELSE IF value.kind = "type" THEN TypeSchema(value.name)
    ELSE IF value.kind = "coerce" THEN TypeSchema(value.name)
    ELSE IF value.kind = "in" /\ value.name = "list" /\ value.items # <<>>
    THEN [EmptyFragment EXCEPT
             !.keys = <<"enum">>,
             !.enum = [i \in 1..Len(value.items) |-> value.items[i].name]]
    ELSE Fallback

\* the for loop of _convert_mapping: [properties, required]
MappingLoop(entries, ser, properties, required) ==
    IF entries = <<>> THEN [properties |-> properties, required |-> required]
    ELSE LET key == Head(entries)
             name == KeyName(key)
         IN  MappingLoop(Tail(entries), ser,
                 DictSet(properties, name, ConvertValue(key.items[1], ser)),
                 IF IsRequired(key) THEN Append(required, name) ELSE required)

\* _convert_mapping
ConvertMapping(entries, ser) ==
    LET r == MappingLoop(entries, ser, <<>>, <<>>) IN
    [EmptyFragment EXCEPT
        !.keys = IF r.required # <<>>
                 THEN <<"type", "properties", "additionalProperties",
                        "required">>
                 ELSE <<"type", "properties", "additionalProperties">>,
        !.type = "object",
        !.properties = r.properties,
        !.additionalProperties = TRUE,
        !.required = r.required]

\* convert
Convert(value, ser) ==
    IF value.kind = "schema" THEN ConvertValue(value.items[1], ser)
    ELSE IF value.kind = "mapping" THEN ConvertMapping(value.items, ser)
    ELSE UnknownShape

\* values without parts
Leaves ==
    {TypeMarker(t) : t \in {"str", "int", "float", "bool"}}
    \cup {Coerce("int"), Coerce("list"), Lambda, Selector, Literal("auto"),
          List(<<>>), In("list", <<>>), In("set", <<Literal("x")>>),
          In("list", <<Literal("y"), Literal("x")>>)}

Names == {"a", "b", "c", "d"}

Markers == {"Required", "Optional", "plain"}

NamesOf(entries) == {entries[i].name : i \in 1..Len(entries)}

\* the mappings of at most k keys with distinct names and values from vs
RECURSIVE MappingsUpTo(_, _)
MappingsUpTo(k, vs) ==
    IF k = 0 THEN {<<>>}
    ELSE LET shorter == MappingsUpTo(k - 1, vs) IN
         shorter \cup
         UNION {{Append(m, Key(mk, n, v)) :
                    mk \in Markers, n \in Names \ NamesOf(m), v \in vs} :
                m \in {x \in shorter : Len(x) = k - 1}}

FlatMappings ==
    {MappingOf(m) : m \in MappingsUpTo(MaxKeys, {TypeMarker("str")})}

\* what is put inside a container
Nestable ==
    Leaves \cup {MappingOf(<<>>)}
    \cup {MappingOf(<<Key(mk, "a", v)>>) :
             mk \in Markers, v \in {TypeMarker("int"), Selector}}

Wrapped ==
    {SchemaOf(x) : x \in Nestable}
    \cup {List(<<x>>) : x \in Nestable}
    \cup {List(<<x, TypeMarker("str")>>) : x \in {Lambda, TypeMarker("int")}}
    \cup {MappingOf(<<Key(mk, "b", x)>>) :
             mk \in {"Required", "plain"}, x \in Nestable}

\* the schema arguments convert is called with: mappings of plain values,
\* bare or as vol.Schema, and values with one level more of nesting
PlainSchemas == FlatMappings \cup {SchemaOf(x) : x \in FlatMappings}

NestedSchemas ==
    Leaves \cup Wrapped
    \cup {SchemaOf(x) : x \in Wrapped}
    \cup {MappingOf(<<Key("Optional", "c", x)>>) : x \in Wrapped}

\* convert has not returned yet
Pending == [EmptyFragment EXCEPT !.keys = <<"pending">>]

InitSchema ==
    /\ schema \in PlainSchemas \cup NestedSchemas
    /\ custom_serializer \in Serializers
    /\ converted = Pending
    /\ AgentUnused
    /\ CacheUnused

\* convert(schema, custom_serializer) is called and returns
ConvertCall ==
    /\ converted = Pending
    /\ converted' = Convert(schema, custom_serializer)
    /\ UNCHANGED <<schema, custom_serializer>>
    /\ UNCHANGED <<loopVars, streamVars, cacheVars>>

NextSchema == ConvertCall

SpecSchema == InitSchema /\ [][NextSchema]_vars

----------------------------------------------------------------------------
(* Properties of the conversation loop (specification Spec) *)

ToolEvents(evs) == SelectSeq(evs, LAMBDA e : e.tool_calls # <<>>)

\* the response makes _transform_stream yield a tool-call delta
RequestsToolCall(s) == ToolEvents(TransformStream(<<>>, s).out) # <<>>

Terminated == pc \in {"Done", "Failed", "Aborted"}

\* C1: one invocation of the loop issues at most MAX_TOOL_ITERATIONS = 10
\* completion requests; when no request failed and every response asked for
\* a tool call, the loop has stopped only after exactly 10 requests.
C1_AtMostTenRequests ==
    /\ requests <= 10
    /\ Len(served) <= requests
    /\ (pc = "Done" /\ \A i \in 1..Len(served) : RequestsToolCall(served[i]))
          => (requests = 10 /\ Len(served) = 10)

C1_Witness ==
    /\ pc = "Done"
    /\ requests = 10
    /\ \A i \in 1..Len(served) : RequestsToolCall(served[i])

\* the scenario of C2: one user message, then a single well-formed tool call
\* answered by the executor, then plain content
C2_Scenario ==
    /\ log0 = <<UserContent(<<"u">>)>>
    /\ Len(served) >= 2
    /\ served[1] = ToolCallResponse
    /\ served[2] = ContentResponse

\* C2: in that scenario the loop issues exactly 2 requests and ends in Done
\* below the iteration bound with the 4 messages user, assistant with the
\* tool call, tool result, final assistant, in the chat log and in messages.
C2_EndToEnd ==
    C2_Scenario =>
        /\ requests = 2
        /\ Len(served) = 2
        /\ pc \in {"Streaming", "ExecutingTools", "Done"}
        /\ pc = "Done" =>
            /\ iteration < MAX_TOOL_ITERATIONS
            /\ outcome = [kind |-> "result", transcript |-> chat_log]
            /\ Len(chat_log) = 4
            /\ chat_log[1] = UserContent(<<"u">>)
            /\ chat_log[2].role = "assistant" /\ Len(chat_log[2].tool_calls) = 1
            /\ chat_log[3].role = "tool_result"
            /\ chat_log[3].tool_call_id = chat_log[2].tool_calls[1].id
            /\ chat_log[4].role = "assistant" /\ chat_log[4].tool_calls = <<>>
            /\ chat_log[4].content = <<"h", "i">>
            /\ [i \in 1..Len(messages) |-> messages[i].role]
                  = <<"user", "assistant", "tool", "assistant">>

C2_Witness ==
    /\ C2_Scenario
    /\ pc = "Done"
    /\ Len(chat_log) = 4

\* this round's assistant message carries tool calls, all of them answered
RoundAnswered ==
    /\ assistantAt # 0
    /\ chat_log[assistantAt].tool_calls # <<>>
    /\ \A j \in 1..Len(chat_log[assistantAt].tool_calls) :
          \E k \in (assistantAt + 1)..Len(chat_log) :
              /\ chat_log[k].role = "tool_result"
              /\ chat_log[k].tool_call_id = chat_log[assistantAt].tool_calls[j].id

\* a step that ends a round (leaves ExecutingTools)
RoundEnds == pc = "ExecutingTools" /\ pc' # "ExecutingTools"

\* C3 as the spec states it: once the tool results of a round are appended
\* and every tool call of the latest assistant turn has its tool message,
\* the loop reaches Done without another request.
C3_DoneWhenAllAnswered ==
    [][(RoundEnds /\ RoundAnswered) => pc' = "Done"]_vars

\* C3 amended: at the end of a round the loop returns to Requesting exactly
\* when the last entry of the transcript is a tool result and fewer than 10
\* iterations have run; otherwise it reaches Done, returns the transcript
\* and issues no further request.
C3_LoopTermination ==
    [][RoundEnds =>
        IF Last(chat_log).role = "tool_result" /\ iteration < 10
        THEN pc' = "Requesting" /\ outcome' = outcome
        ELSE /\ pc' = "Done"
             /\ requests' = requests
             /\ outcome' = [kind |-> "result", transcript |-> chat_log]]_vars

C3_Witness ==
    /\ pc = "Requesting"
    /\ iteration >= 1
    /\ RoundAnswered

\* C4: after a failed completion request no further request is issued and
\* the invocation is in Failed with an error for the caller, never in Done.
C4_NoRetryAfterFailure ==
    failedAt # 0 =>
        /\ pc = "Failed"
        /\ requests = failedAt
        /\ outcome.kind = "error"

C4_Witness ==
    /\ failedAt >= 2
    /\ pc = "Failed"

\* C5: when a request fails after at least one successful round, the caller
\* gets the error alone: no transcript is delivered, although the chat log
\* has grown in this invocation.
C5_ErrorOnly ==
    (failedAt >= 2 /\ Len(chat_log) > Len(log0)) =>
        outcome = [kind |-> "error", transcript |-> <<>>]

C5_Witness ==
    /\ failedAt >= 2
    /\ Len(chat_log) > Len(log0)
    /\ Len(messages) > Len(log0)

\* C6: an invocation that ran all 10 iterations and still has unresponded
\* tool results ends in Done with a result, and Failed is entered only by a
\* failed request.
C6_BoundIsNotAnError ==
    /\ pc = "Failed" => failedAt # 0
    /\ (Terminated /\ failedAt = 0 /\ iteration = 10
            /\ Last(chat_log).role = "tool_result")
          => (pc = "Done" /\ outcome.kind = "result")

C6_Witness ==
    /\ pc = "Done"
    /\ iteration = 10
    /\ Last(chat_log).role = "tool_result"

\* executions logged for the call id in the given round
Executions(round, id) ==
    Len(SelectSeq(executed, LAMBDA e : e.round = round /\ e.id = id))

\* C8: when a round is over, every tool call on the assistant message it
\* appended has been run by the tool executor exactly once.
C8_ExecutedExactlyOnce ==
    (pc = "ExecutingTools" /\ queue = <<>> /\ assistantAt # 0) =>
        \A j \in 1..Len(chat_log[assistantAt].tool_calls) :
            Executions(iteration, chat_log[assistantAt].tool_calls[j].id) = 1

----------------------------------------------------------------------------
(* Properties of the aggregator (specification SpecStream) *)

\* C7: _transform_stream yields at most one tool-call delta per stream.
C7_AtMostOneToolCallEvent == Len(ToolEvents(events)) <= 1

\* a consumed chunk carried finish reason tool_calls
FinishSeen(cs) ==
    \E i \in 1..Len(cs) : cs[i].choices /\ cs[i].finish_reason = "tool_calls"

\* C9: a tool-call delta is yielded only while a chunk with finish reason
\* tool_calls is processed; a stream, or a prefix of one, without such a
\* chunk yields none whatever fragments it accumulated.
C9_OnlyOnFinishReason ==
    /\ [](~FinishSeen(chunks) => ToolEvents(events) = <<>>)
    /\ [][Len(ToolEvents(events')) > Len(ToolEvents(events)) =>
            /\ Last(chunks').choices
            /\ Last(chunks').finish_reason = "tool_calls"]_vars

C9_Witness ==
    /\ Len(chunks) >= 4
    /\ ~FinishSeen(chunks)
    /\ \E p \in 1..Len(current_tool_calls) :
          /\ SlotComplete(current_tool_calls[p])
          /\ ~JsonDecodeError(current_tool_calls[p].arguments)
    /\ ToolEvents(events) = <<>>

\* the fragments of the stream, in arrival order
AllFragments(cs) ==
    Flatten([i \in 1..Len(cs) |->
                IF cs[i].choices THEN cs[i].tool_calls ELSE <<>>])

\* the argument text received for index idx, in arrival order
ArgumentsReceived(cs, idx) ==
    LET fs == SelectSeq(AllFragments(cs), LAMBDA f : f.index = idx)
    IN  Flatten([i \in 1..Len(fs) |-> fs[i].arguments])

\* the example stream of C10
C10_Example ==
    <<Chunk(<<>>, <<Fragment(0, "a", "", <<>>)>>, "none"),
      Chunk(<<>>, <<Fragment(0, "", "f", <<>>)>>, "none"),
      Chunk(<<>>, <<Fragment(0, "", "", ArgsOpen)>>, "none"),
      Chunk(<<>>, <<Fragment(0, "", "", ArgsClose)>>, "none"),
      Chunk(<<>>, <<>>, "tool_calls")>>

\* C10: every slot's argument string is the concatenation, in arrival
\* order, of the fragments received for its index; the calls of a delta
\* yielded at the last chunk carry the parse of that concatenation; and the
\* example stream yields one delta with the one call f(a) of arguments {x: 1}.
C10_ArgumentsConcatenated ==
    /\ \A p \in 1..Len(current_tool_calls) :
          current_tool_calls[p].arguments
              = ArgumentsReceived(chunks, current_tool_calls[p].index)
    /\ (/\ chunks # <<>>
        /\ Last(chunks).choices /\ Last(chunks).finish_reason = "tool_calls"
        /\ events # <<>>
        /\ Last(events).tool_calls # <<>>)
          => \A j \in 1..Len(Last(events).tool_calls) :
                \E p \in 1..Len(current_tool_calls) :
                    /\ Last(events).tool_calls[j].id = current_tool_calls[p].id
                    /\ Last(events).tool_calls[j].tool_args
                         = JsonLoads(ArgumentsReceived(
                               chunks, current_tool_calls[p].index))
    /\ chunks = C10_Example =>
          events = <<ToolCallsDelta(<<[id |-> "a", tool_name |-> "f",
                        tool_args |-> [path |-> <<"x">>, leaf |-> <<"1">>]]>>)>>

C10_Witness ==
    /\ chunks = C10_Example
    /\ Len(ToolEvents(events)) = 1

----------------------------------------------------------------------------
(* Properties of finalization and of the yielded deltas *)

\* the slot of the accumulator that carries the id
SlotIndexOf(id) ==
    LET p == CHOOSE p \in 1..Len(current_tool_calls) :
                 current_tool_calls[p].id = id
    IN  current_tool_calls[p].index

\* C11: the tool calls of every yielded tool-call delta are in ascending
\* order of their slots' stream-assigned index.
C11_IndexOrder ==
    \A n \in 1..Len(events) :
        \A j, k \in 1..Len(events[n].tool_calls) :
            j < k => SlotIndexOf(events[n].tool_calls[j].id)
                        < SlotIndexOf(events[n].tool_calls[k].id)

\* a step in which _transform_stream consumes one chunk
ChunkStep == Len(chunks') = Len(chunks) + 1

\* the deltas yielded by that step
NewEvents == SubSeq(events', Len(events) + 1, Len(events'))

\* id, name and argument string non-empty, and the arguments parse
Usable(slot) ==
    /\ slot.id # "" /\ slot.name # "" /\ slot.arguments # <<>>
    /\ ~JsonDecodeError(slot.arguments)

\* C12: each call of a yielded tool-call delta comes from a slot whose id,
\* name and argument string are all non-empty; every such slot with
\* parsable arguments is in the delta; a slot missing one of the three is not.
C12_OnlyCompleteSlots ==
    [][ChunkStep =>
        \A n \in 1..Len(NewEvents) :
            LET tc == NewEvents[n].tool_calls IN
            tc # <<>> =>
                /\ \A j \in 1..Len(tc) :
                      \E p \in 1..Len(current_tool_calls') :
                          LET slot == current_tool_calls'[p] IN
                          /\ slot.id # "" /\ slot.name # ""
                          /\ slot.arguments # <<>>
                          /\ tc[j].id = slot.id
                          /\ tc[j].tool_name = slot.name
                          /\ tc[j].tool_args = JsonLoads(slot.arguments)
                /\ \A p \in 1..Len(current_tool_calls') :
                      LET slot == current_tool_calls'[p] IN
                      /\ Usable(slot) =>
                            \E j \in 1..Len(tc) : tc[j].id = slot.id
                      /\ (slot.id = "" \/ slot.name = ""
                              \/ slot.arguments = <<>>) =>
                            \A j \in 1..Len(tc) : tc[j].id # slot.id]_vars

C12_Witness ==
    /\ Len(ToolEvents(events)) = 1
    /\ \E p \in 1..Len(current_tool_calls) :
          current_tool_calls[p].name = "" /\ current_tool_calls[p].id # ""
    /\ \E q \in 1..Len(current_tool_calls) : Usable(current_tool_calls[q])

\* a complete slot whose arguments do not parse
Unparsable(slot) ==
    /\ slot.id # "" /\ slot.name # "" /\ slot.arguments # <<>>
    /\ JsonDecodeError(slot.arguments)

\* C13: when finish reason tool_calls arrives while one complete slot has
\* unparsable arguments and another slot is usable, exactly one tool-call
\* delta is yielded; it holds every usable slot and not the unparsable one.
C13_DropOnlyUnparsable ==
    [][(/\ ChunkStep
        /\ Last(chunks').choices
        /\ Last(chunks').finish_reason = "tool_calls"
        /\ \E p \in 1..Len(current_tool_calls') :
              Unparsable(current_tool_calls'[p])
        /\ \E q \in 1..Len(current_tool_calls') :
              Usable(current_tool_calls'[q]))
        => /\ Len(ToolEvents(NewEvents)) = 1
           /\ LET tc == ToolEvents(NewEvents)[1].tool_calls IN
              \A p \in 1..Len(current_tool_calls') :
                  LET slot == current_tool_calls'[p] IN
                  /\ Usable(slot) => \E j \in 1..Len(tc) : tc[j].id = slot.id
                  /\ Unparsable(slot) =>
                        \A j \in 1..Len(tc) : tc[j].id # slot.id]_vars

C13_Witness ==
    /\ chunks # <<>>
    /\ Last(chunks).finish_reason = "tool_calls"
    /\ ~FinishSeen(SubSeq(chunks, 1, Len(chunks) - 1))
    /\ Len(ToolEvents(events)) = 1
    /\ \E p \in 1..Len(current_tool_calls) : Unparsable(current_tool_calls[p])
    /\ \E q \in 1..Len(current_tool_calls) : Usable(current_tool_calls[q])

\* C14: a chunk with finish reason tool_calls that finds no usable slot
\* yields no tool-call delta; no delta is ever empty of both content and
\* tool calls; and a round whose stream yielded no tool-call delta runs no
\* tool.
C14_NoUsableSlotNoEvent ==
    /\ [][(/\ ChunkStep
           /\ Last(chunks').choices
           /\ Last(chunks').finish_reason = "tool_calls"
           /\ \A p \in 1..Len(current_tool_calls') :
                 ~Usable(current_tool_calls'[p]))
            => NewEvents = IF Last(chunks').content # <<>>
                           THEN <<ContentDelta(Last(chunks').content)>>
                           ELSE <<>>]_vars
    /\ [](\A n \in 1..Len(events) :
             events[n].content # <<>> \/ events[n].tool_calls # <<>>)
    /\ [](ToolEvents(events) = <<>> =>
             /\ queue = <<>>
             /\ executed = <<>>
             /\ \A i \in 1..Len(chat_log) : chat_log[i].role # "tool_result")

C14_Witness ==
    /\ pc \in {"Done", "Requesting"}
    /\ FinishSeen(chunks)
    /\ \E p \in 1..Len(current_tool_calls) : Unparsable(current_tool_calls[p])
    /\ ToolEvents(events) = <<>>
    /\ executed = <<>>

\* the chunks that carry content on their first choice
ContentChunks(cs) ==
    SelectSeq(cs, LAMBDA c : c.choices /\ c.content # <<>>)

\* C15: the content deltas yielded so far are exactly the non-empty content
\* texts of the chunks consumed, in arrival order; each is yielded by the
\* step that consumes its chunk, first among that step's deltas, before a
\* tool-call delta of the same chunk; deltas already yielded stay in place.
C15_ContentImmediately ==
    /\ [](LET cc == ContentChunks(chunks) IN
          SelectSeq(events, LAMBDA e : e.content # <<>>)
             = [i \in 1..Len(cc) |-> ContentDelta(cc[i].content)])
    /\ [][ChunkStep =>
            LET c == Last(chunks') IN
            /\ Len(events') >= Len(events)
            /\ SubSeq(events', 1, Len(events)) = events
            /\ IF c.choices /\ c.content # <<>>
               THEN /\ NewEvents # <<>>
                    /\ NewEvents[1] = ContentDelta(c.content)
                    /\ \A n \in 2..Len(NewEvents) : NewEvents[n].content = <<>>
               ELSE \A n \in 1..Len(NewEvents) : NewEvents[n].content = <<>>]_vars

C15_Witness ==
    /\ Len(events) >= 3
    /\ Last(chunks).content = <<"i">>
    /\ Last(events).tool_calls # <<>>
    /\ events[Len(events) - 1] = ContentDelta(<<"i">>)
    /\ events[1] = ContentDelta(<<"h">>)

----------------------------------------------------------------------------
(* Properties of the outgoing message list *)

\* C16: no assistant message of the outgoing list lacks both content and
\* tool calls.
C16_NoEmptyAssistantMessage ==
    \A i \in 1..Len(messages) :
        messages[i].role = "assistant" =>
            messages[i].content # <<>> \/ messages[i].tool_calls # <<>>

\* C17: every tool message follows, within a run of tool messages, the
\* assistant message of its round and carries the id of that message's
\* tool call at the same position; once a round's calls are all run the
\* list ends with one tool message per call.
C17_ToolMessagesAnswerCalls ==
    /\ \A k \in 1..Len(messages) :
          messages[k].role = "tool" =>
              \E i \in 1..(k - 1) :
                  /\ messages[i].role = "assistant"
                  /\ \A m \in (i + 1)..k : messages[m].role = "tool"
                  /\ k - i <= Len(messages[i].tool_calls)
                  /\ messages[k].tool_call_id # ""
                  /\ messages[k].tool_call_id
                        = messages[i].tool_calls[k - i].id
    /\ (pc = "ExecutingTools" /\ queue = <<>> /\ assistantAt # 0) =>
          /\ messages[assistantAt].role = "assistant"
          /\ Len(messages)
                = assistantAt + Len(messages[assistantAt].tool_calls)

C17_Witness ==
    /\ pc = "ExecutingTools"
    /\ queue = <<>>
    /\ assistantAt # 0
    /\ Len(messages[assistantAt].tool_calls) = 2
    /\ messages[assistantAt + 1].tool_call_id = "b"
    /\ messages[assistantAt + 2].tool_call_id = "a"

\* tool results in the chat log after this round's assistant message
ResultsOfRound ==
    SelectSeq(SubSeq(chat_log, assistantAt + 1, Len(chat_log)),
              LAMBDA c : c.role = "tool_result")

\* C18: a completion request is issued only from Requesting, when the
\* stream of the previous request has been consumed to its end and one
\* tool result per tool call of the previous round is in the chat log.
C18_OneRequestAtATime ==
    [][requests' = requests + 1 =>
        /\ pc = "Requesting"
        /\ stream = <<>>
        /\ queue = <<>>
        /\ requests >= 1 =>
            /\ Len(served) = requests
            /\ chunks = Last(served)
            /\ assistantAt # 0 =>
                  /\ Len(ResultsOfRound)
                        = Len(chat_log[assistantAt].tool_calls)
                  /\ Len(chat_log) = assistantAt + Len(ResultsOfRound)]_vars

C18_Witness ==
    /\ requests >= 3
    /\ pc = "Streaming"
    /\ Len(executed) >= 3

IsPrefix(a, b) == Len(a) <= Len(b) /\ SubSeq(b, 1, Len(a)) = a

\* C19: every step leaves the outgoing message list and the chat log as
\* they were or extends them at the end.
C19_AppendOnly ==
    [][IsPrefix(messages, messages') /\ IsPrefix(chat_log, chat_log')]_vars

C19_Witness ==
    /\ requests >= 2
    /\ pc = "Streaming"
    /\ Len(messages) >= Len(log0) + 3

\* C20: the accumulator and the yielded deltas are those of the chunks of
\* the current stream alone, and the accumulator is empty before the first
\* chunk of every stream.
C20_AccumulatorPerStream ==
    /\ current_tool_calls = TransformStream(<<>>, chunks).ctc
    /\ events = TransformStream(<<>>, chunks).out
    /\ chunks = <<>> => current_tool_calls = <<>>

C20_Witness ==
    /\ pc = "Streaming"
    /\ requests >= 2
    /\ chunks = <<>>
    /\ executed # <<>>
    /\ current_tool_calls = <<>>

----------------------------------------------------------------------------
(* Termination of the conversation loop (specification SpecLive) *)

\* C21: under Fairness, an invocation that entered the loop eventually is
\* in Done or Failed, whatever the responses, also when each of them
\* requests a tool call.
C21_EventuallyTerminates ==
    (pc = "Requesting") ~> (pc \in {"Done", "Failed"})

C21_Witness ==
    /\ pc = "Done"
    /\ iteration = MAX_TOOL_ITERATIONS
    /\ Len(served) = MAX_TOOL_ITERATIONS
    /\ \A k \in 1..Len(served) : RequestsToolCall(served[k])

----------------------------------------------------------------------------
(* Properties of ModelCache (specification SpecCache) *)

\* the callers whose client.models.list() is awaited
InFlight == {c \in Callers : callers[c].pc = "fetching"}

\* C22: at most one call of the remote list endpoint is in flight, and it
\* is the call of the holder of the lock.
C22_OneFetchInFlight ==
    /\ Cardinality(InFlight) <= 1
    /\ \A c \in InFlight : lock = c

C22_Witness ==
    /\ callers[1].pc = "fetching"
    /\ callers[2].pc = "waiting"
    /\ last_updated.set

\* never refreshed, or the last refresh is older than the time-to-live
Stale == ~last_updated.set \/ now - last_updated.at > TTL

\* C23: a get_models call issues at most one remote call; it issues it in
\* the step in which it takes the free lock and only if the cache is then
\* stale; a call that takes the lock on a cache that is not stale returns
\* without a remote call.
C23_FetchOnlyWhenStale ==
    /\ [](\A c \in Callers : callers[c].fetches <= 1)
    /\ [][\A c \in Callers :
            /\ callers'[c].fetches > callers[c].fetches =>
                  /\ Stale
                  /\ callers[c].pc = "waiting"
                  /\ lock = 0 /\ lock' = c
            /\ (callers[c].pc = "waiting" /\ callers'[c].pc # "waiting"
                    /\ ~Stale) =>
                  /\ callers'[c].pc = "returned"
                  /\ callers'[c].fetches = 0
                  /\ callers'[c].result.kind = "value"]_vars

C23_Witness ==
    /\ callers[1].pc = "returned" /\ callers[1].fetches = 1
    /\ callers[1].refresh = "ok"
    /\ callers[2].pc = "returned" /\ callers[2].fetches = 0
    /\ ~Stale
    /\ now > last_updated.at

\* C24: a refresh that fails makes get_models return a value; a list that
\* was cached before is the same after; when no list was cached and no
\* refresh ever succeeded the value returned is the three static lists.
C24_FailedRefreshKeepsCache ==
    [][\A c \in Callers :
        (callers[c].pc = "fetching" /\ callers'[c].refresh = "failed") =>
            /\ callers'[c].pc = "returned"
            /\ callers'[c].result.kind = "value"
            /\ chat_models.set => chat_models' = chat_models
            /\ stt_models.set => stt_models' = stt_models
            /\ tts_models.set => tts_models' = tts_models
            /\ chat_models.set =>
                  callers'[c].result.chat = chat_models.ids
            /\ (~chat_models.set /\ ~stt_models.set /\ ~tts_models.set) =>
                  /\ callers'[c].result.chat = CHAT_MODELS
                  /\ callers'[c].result.stt = STT_MODELS
                  /\ callers'[c].result.tts = TTS_MODELS]_vars

C24_Witness ==
    /\ callers[1].pc = "returned" /\ callers[1].refresh = "failed"
    /\ callers[1].result.chat = CHAT_MODELS
    /\ callers[1].result.stt = STT_MODELS
    /\ callers[1].result.tts = TTS_MODELS
    /\ callers[2].pc = "returned" /\ callers[2].refresh = "failed"
    /\ callers[2].result.chat = << <<"gemma">>, <<"llama">> >>
    /\ last_updated.set

----------------------------------------------------------------------------
(* Properties of convert (specification SpecSchema) *)

\* the mapping _convert_mapping runs on: the schema itself, or the mapping a
\* root vol.Schema wraps when the serializer gives no mapping for it
MappingInput ==
    IF schema.kind = "mapping" THEN schema
    ELSE IF /\ schema.kind = "schema"
            /\ schema.items[1].kind = "mapping"
            /\ ~Serialized(custom_serializer, schema.items[1]).ok
    THEN schema.items[1]
    ELSE Lambda

\* the names of the entries that satisfy Test, in the order of the mapping
NamesWhere(entries, Test(_)) ==
    LET chosen == SelectSeq(entries, Test)
    IN  [i \in 1..Len(chosen) |-> chosen[i].name]

\* C25: the translation of a mapping lists under `required` the names of
\* its vol.Required keys, in the order of the mapping, and nothing else (no
\* `required` key when there is none); its properties are the names of all
\* keys, each once, in the order of the mapping.
C25_RequiredKeysInOrder ==
    (converted # Pending /\ MappingInput.kind = "mapping") =>
        LET entries == MappingInput.items IN
        /\ converted.type = "object"
        /\ converted.required
              = NamesWhere(entries, LAMBDA e : e.kind = "Required")
        /\ (\E i \in 1..Len(converted.keys) : converted.keys[i] = "required")
              <=> (\E i \in 1..Len(entries) : entries[i].kind = "Required")
        /\ [i \in 1..Len(converted.properties) |->
                converted.properties[i].name]
              = NamesWhere(entries, LAMBDA e : TRUE)

C25_Witness ==
    /\ converted # Pending
    /\ schema.kind = "schema"
    /\ Len(converted.properties) = 3
    /\ converted.properties[2].name = "a"
    /\ schema.items[1].items[2].kind = "Optional"
    /\ converted.required = <<"c", "b">>

\* a value that matches none of the shapes _convert_value recognizes
Unrecognized(value) ==
    \/ value.kind \in {"callable", "selector", "literal"}
    \/ value.kind = "list" /\ value.items = <<>>
    \/ value.kind = "in" /\ (value.name # "list" \/ value.items = <<>>)

\* the custom serializer gives no mapping for the value
NoCustomResult(value) == ~Serialized(custom_serializer, value).ok

\* an unrecognized value without serializer result translates to {} where
\* it is nested: wrapped by the root vol.Schema, as a property value, as
\* the first element of a list
NestedUnrecognizedEmpty ==
    /\ (/\ schema.kind = "schema"
        /\ Unrecognized(schema.items[1])
        /\ NoCustomResult(schema.items[1]))
         => converted = EmptyFragment
    /\ MappingInput.kind = "mapping" =>
          \A i \in 1..Len(MappingInput.items) :
              LET x == MappingInput.items[i].items[1] IN
              (Unrecognized(x) /\ NoCustomResult(x)) =>
                  converted.properties[i].schema = EmptyFragment
    /\ (/\ schema.kind = "schema"
        /\ schema.items[1].kind = "list"
        /\ schema.items[1].items # <<>>
        /\ NoCustomResult(schema.items[1])
        /\ Unrecognized(schema.items[1].items[1])
        /\ NoCustomResult(schema.items[1].items[1]))
         => converted.items = <<EmptyFragment>>

\* C26 as stated: an unrecognized value without serializer result
\* translates to {} also when it is itself the schema passed to convert.
C26_UnrecognizedIsEmpty ==
    converted # Pending =>
        /\ NestedUnrecognizedEmpty
        /\ (Unrecognized(schema) /\ NoCustomResult(schema))
             => converted = EmptyFragment

\* C26: an unrecognized value without serializer result translates to {}
\* where it is nested; passed to convert as the schema itself it translates
\* to {"type": "object", "additionalProperties": true}.
C26_UnrecognizedNestedIsEmpty ==
    converted # Pending =>
        /\ NestedUnrecognizedEmpty
        /\ Unrecognized(schema) => converted = UnknownShape

C26_Witness ==
    /\ schema = Lambda
    /\ custom_serializer = "none"
    /\ converted = UnknownShape

\* what rule 1 makes of a value: the serializer's mapping, else the result
\* of the rules after it
ByRuleOne(value) ==
    LET r == CallSerializer(custom_serializer, value) IN
    IF r.outcome = "mapping" THEN r.returned
    ELSE Recognize(value, custom_serializer)

\* C27: with a serializer supplied, a value for which it returns a mapping
\* translates to that mapping, and a value for which it raises or returns
\* something else translates as the later rules say; this for the value
\* the root vol.Schema wraps and for every property value.  A serializer
\* that always raises changes nothing.
C27_SerializerFirst ==
    (converted # Pending /\ custom_serializer # "none") =>
        /\ schema.kind = "schema" => converted = ByRuleOne(schema.items[1])
        /\ MappingInput.kind = "mapping" =>
              \A i \in 1..Len(MappingInput.items) :
                  converted.properties[i].schema
                      = ByRuleOne(MappingInput.items[i].items[1])
        /\ custom_serializer = "raising" =>
              converted = Convert(schema, "none")

C27_Witness ==
    /\ custom_serializer = "selector"
    /\ schema.kind = "mapping"
    /\ Len(converted.properties) = 1
    /\ converted.properties[1].schema.type = "object"
    /\ Len(converted.properties[1].schema.properties) = 1
    /\ converted.properties[1].schema.properties[1].schema
          = CustomFragment(Selector)

\* C28: the mapping wrapped by a root vol.Schema translates to the object
\* schema built from its keys, whatever the serializer.
C28_RootSkipsSerializer ==
    (/\ converted # Pending
     /\ schema.kind = "schema"
     /\ schema.items[1].kind = "mapping")
        => converted = ConvertMapping(schema.items[1].items, custom_serializer)

----------------------------------------------------------------------------
(* The end of a round, by what the round's stream produced *)

\* the round's stream made the chat log add an assistant message with tool
\* calls (whose results are then appended)
RoundProducedToolCall ==
    assistantAt # 0 /\ chat_log[assistantAt].tool_calls # <<>>

\* C29 as stated: at the end of a round another request follows exactly
\* when the round's stream produced a tool call and fewer than 10 requests
\* were issued; a round that produced only content, or nothing, ends the
\* loop.
C29_OnlyToolRoundContinues ==
    [][RoundEnds =>
        (pc' = "Requesting" <=> (RoundProducedToolCall /\ requests < 10))]_vars

\* C29 amended: at the end of a round another request follows exactly when
\* the last entry of the transcript is a tool result and fewer than 10
\* requests were issued.  A round that produced a tool call goes on while
\* requests remain, a round that produced only content ends the loop, and
\* a round that produced nothing ends the loop unless the transcript still
\* ends with the tool results of an earlier round.
C29_ContinuesOnTrailingToolResult ==
    [][RoundEnds =>
        /\ pc' = "Requesting" <=>
              (Last(chat_log).role = "tool_result" /\ requests < 10)
        /\ pc' \in {"Requesting", "Done"}
        /\ RoundProducedToolCall =>
              (pc' = "Requesting" <=> requests < 10)
        /\ (assistantAt # 0 /\ ~RoundProducedToolCall) => pc' = "Done"
        /\ assistantAt = 0 =>
              (pc' = "Requesting" <=>
                  (/\ Len(chat_log) > Len(log0)
                   /\ Last(chat_log).role = "tool_result"
                   /\ requests < 10))]_vars

C29_Witness ==
    /\ pc = "Requesting"
    /\ requests >= 2
    /\ assistantAt = 0
    /\ events = <<>>
    /\ chunks # <<>>
    /\ Last(chat_log).role = "tool_result"

----------------------------------------------------------------------------
(* Ids and names of the accumulator slots (specification SpecRound) *)

\* the last non-empty id received for index idx ("" when there was none)
LastId(cs, idx) ==
    LET fs == SelectSeq(AllFragments(cs),
                        LAMBDA f : f.index = idx /\ f.id # "")
    IN  IF fs = <<>> THEN "" ELSE Last(fs).id

\* the last non-empty function name received for index idx
LastName(cs, idx) ==
    LET fs == SelectSeq(AllFragments(cs),
                        LAMBDA f : f.index = idx /\ f.function /\ f.name # "")
    IN  IF fs = <<>> THEN "" ELSE Last(fs).name

\* C30: there is one slot per index received; its id (name) is the last
\* non-empty id (name) a fragment for that index carried, and empty when
\* none did, as its arguments are empty when none carried any; the calls of
\* a tool-call delta carry the ids and names so determined by the chunks up
\* to the one that finalizes.
C30_LastIdAndNameWin ==
    /\ [](/\ \A p \in 1..Len(current_tool_calls) :
                LET slot == current_tool_calls[p] IN
                /\ slot.id = LastId(chunks, slot.index)
                /\ slot.name = LastName(chunks, slot.index)
                /\ ArgumentsReceived(chunks, slot.index) = <<>> =>
                      slot.arguments = <<>>
          /\ \A i \in 1..Len(AllFragments(chunks)) :
                Cardinality({p \in 1..Len(current_tool_calls) :
                    current_tool_calls[p].index
                        = AllFragments(chunks)[i].index}) = 1)
    /\ [][ChunkStep =>
            \A n \in 1..Len(NewEvents) :
                \A j \in 1..Len(NewEvents[n].tool_calls) :
                    \E p \in 1..Len(current_tool_calls') :
                        LET idx == current_tool_calls'[p].index IN
                        /\ NewEvents[n].tool_calls[j].id
                              = LastId(chunks', idx)
                        /\ NewEvents[n].tool_calls[j].tool_name
                              = LastName(chunks', idx)]_vars

C30_Witness ==
    /\ Len(chunks) = 3
    /\ chunks[1] = Chunk(<<>>, <<CallA>>, "none")
    /\ Len(events) = 1
    /\ Len(events[1].tool_calls) = 1
    /\ events[1].tool_calls[1].id = "c"
    /\ events[1].tool_calls[1].tool_name = "h"

----------------------------------------------------------------------------
(* The message list against the transcript; growth of the accumulator *)

\* C31: whenever the loop is in or past its first request, its message
\* list is the conversion of the transcript as it then is; so the list sent
\* with every request is _convert_messages of the transcript at that moment.
C31_MessagesMirrorTranscript ==
    /\ [](pc \in {"Requesting", "Streaming", "ExecutingTools", "Done",
                  "Failed"} => messages = ConvertMessages(chat_log))
    /\ [][requests' = requests + 1 =>
            /\ messages = ConvertMessages(chat_log)
            /\ messages' = messages]_vars

C31_Witness ==
    /\ pc = "Streaming"
    /\ requests >= 3
    /\ Len(chat_log) >= Len(log0) + 4
    /\ \E i \in 1..Len(messages) :
          messages[i].role = "assistant" /\ messages[i].tool_calls # <<>>
    /\ Last(messages).role = "tool"
    /\ messages = ConvertMessages(chat_log)

\* C32: a chunk leaves every slot in its place; a slot's id and name, once
\* non-empty, stay non-empty, and are unchanged by a chunk none of whose
\* fragments for the slot carries a non-empty id (name); the arguments
\* before the chunk are a prefix of the arguments after it.
C32_SlotsOnlyGrow ==
    [][ChunkStep =>
        /\ Len(current_tool_calls') >= Len(current_tool_calls)
        /\ \A p \in 1..Len(current_tool_calls) :
              LET old == current_tool_calls[p]
                  new == current_tool_calls'[p]
                  fs == SelectSeq(AllFragments(<<Last(chunks')>>),
                                  LAMBDA f : f.index = old.index)
              IN  /\ new.index = old.index
                  /\ old.id # "" => new.id # ""
                  /\ old.name # "" => new.name # ""
                  /\ (\A i \in 1..Len(fs) : fs[i].id = "") => new.id = old.id
                  /\ (\A i \in 1..Len(fs) : fs[i].name = "")
                        => new.name = old.name
                  /\ IsPrefix(old.arguments, new.arguments)]_vars

C32_Witness ==
    /\ Len(chunks) = 5
    /\ Len(current_tool_calls) = 2
    /\ current_tool_calls[1].index = 1
    /\ current_tool_calls[1].arguments = <<"{", "}">>
    /\ current_tool_calls[2].id = "a"
    /\ current_tool_calls[2].name = "f"
    /\ current_tool_calls[2].arguments = ArgsOpen \o ArgsClose

\* C33: once the tenth response, one that requests tool calls, has been
\* dealt with, the invocation is in Done after ten requests: the calls of
\* that response were run, each result is in the transcript and in the
\* message list after the assistant message, and these trailing tool
\* results were sent with no request.
C33_LastRoundToolsStillRun ==
    (/\ Len(served) = MAX_TOOL_ITERATIONS
     /\ RequestsToolCall(served[MAX_TOOL_ITERATIONS])
     /\ pc \notin {"Streaming", "ExecutingTools"})
        => /\ pc = "Done"
           /\ requests = MAX_TOOL_ITERATIONS
           /\ outcome = [kind |-> "result", transcript |-> chat_log]
           /\ assistantAt # 0
           /\ chat_log[assistantAt].tool_calls # <<>>
           /\ Len(chat_log)
                 = assistantAt + Len(chat_log[assistantAt].tool_calls)
           /\ \A j \in 1..Len(chat_log[assistantAt].tool_calls) :
                 /\ chat_log[assistantAt + j].role = "tool_result"
                 /\ chat_log[assistantAt + j].tool_call_id
                       = chat_log[assistantAt].tool_calls[j].id
                 /\ messages[assistantAt + j].role = "tool"
                 /\ Executions(MAX_TOOL_ITERATIONS,
                               chat_log[assistantAt].tool_calls[j].id) >= 1

C33_Witness ==
    /\ pc = "Done"
    /\ Len(served) = MAX_TOOL_ITERATIONS
    /\ Last(executed).round = MAX_TOOL_ITERATIONS
    /\ Last(chat_log).role = "tool_result"
    /\ Last(messages).role = "tool"
    /\ assistantAt = Len(chat_log) - 1

----------------------------------------------------------------------------
(* ModelCache: failed refreshes and concurrent callers *)

\* C34: a refresh that fails leaves the time of the last refresh as it was
\* and the cache stale; a stale cache stops being stale only by a refresh
\* that succeeds, so a call that takes the lock before that issues the
\* remote call; a refresh that succeeds records the current time, and a
\* remote call is issued only when none was recorded or more than the
\* time-to-live has passed since.
C34_FailedRefreshStaysStale ==
    [][/\ \A c \in Callers :
            /\ (callers[c].pc = "fetching" /\ callers'[c].refresh = "failed")
                  => /\ last_updated' = last_updated
                     /\ Stale
                     /\ Stale'
            /\ (callers[c].pc = "fetching" /\ callers'[c].refresh = "ok")
                  => /\ last_updated' = [set |-> TRUE, at |-> now]
                     /\ ~Stale'
            /\ (callers[c].pc = "waiting" /\ callers'[c].pc # "waiting"
                    /\ Stale)
                  => /\ callers'[c].pc = "fetching"
                     /\ callers'[c].fetches = 1
            /\ callers'[c].fetches > callers[c].fetches
                  => \/ ~last_updated.set
                     \/ now - last_updated.at > TTL
       /\ (Stale /\ ~Stale')
            => \E c \in Callers :
                  callers[c].pc = "fetching" /\ callers'[c].refresh = "ok"
      ]_vars

C34_Witness ==
    /\ callers[1].pc = "returned" /\ callers[1].refresh = "failed"
    /\ callers[2].pc = "fetching" /\ callers[2].fetches = 1
    /\ callers[3].pc = "returned" /\ callers[3].refresh = "ok"
    /\ last_updated.set
    /\ Stale

\* the callers that have called get_models
Calling == {c \in Callers : callers[c].pc # "idle"}

\* every caller has called at most once, none of the refreshes failed, and
\* the time-to-live has not passed since the callers came
OneBurst ==
    /\ started = Cardinality(Calling)
    /\ \A c \in Callers : callers[c].refresh # "failed"
    /\ now <= TTL

\* C35: of callers that come together on a cache never refreshed, with no
\* refresh failing, at most one issues the remote call; once one of them has
\* returned exactly one has issued it, its refresh succeeded, and all that
\* have returned got the same three lists, those now cached.
C35_OneFetchForAll ==
    OneBurst =>
        LET fetchers == {c \in Callers : callers[c].fetches >= 1}
            done == {c \in Callers : callers[c].pc = "returned"}
        IN  /\ Cardinality(fetchers) <= 1
            /\ \A c \in fetchers : callers[c].fetches = 1
            /\ done # {} =>
                  /\ \E c \in done : fetchers = {c} /\ callers[c].refresh = "ok"
                  /\ \A c \in done :
                        callers[c].result
                          = Returned(chat_models, stt_models, tts_models)

C35_Witness ==
    /\ OneBurst
    /\ started >= 3
    /\ \A c \in 1..3 : callers[c].pc = "returned"
    /\ callers[1].fetches = 1 /\ callers[1].refresh = "ok"
    /\ callers[2].fetches = 0 /\ callers[3].fetches = 0
    /\ callers[2].result = callers[1].result
    /\ callers[3].result = callers[1].result
    /\ callers[1].result.chat # CHAT_MODELS

====
